---------------------------- MODULE Spec2Model ----------------------------
(***************************************************************************)
(* med-pulse-bot: the detection-to-attendance pipeline.                    *)
(*                                                                         *)
(* The model follows internal/services (AttendanceService), the PocketBase *)
(* REST repositories and the Telegram notifier.  Each ProcessDetection     *)
(* call is a run; every collaborator call of a run is one atomic step, so  *)
(* that runs served by net/http on different goroutines interleave between *)
(* their calls.  The PocketBase server and the network are the             *)
(* environment: every HTTP exchange draws its response from Responses.     *)
(*                                                                         *)
(* Time.  An instant is [day, tick]: a calendar day of the server's zone   *)
(* (a fixed-offset zone, no DST) and the tick within that day; a second    *)
(* has SubSec ticks (time.Now() is finer than a second).                   *)
(***************************************************************************)
EXTENDS Integers, Sequences, FiniteSets, TLC

\* ------------------------------------------------------------- bounds
\* Number of ProcessDetection calls (sightings) in a behaviour.
MaxRuns == 2
\* Calendar days the clock runs through.
MaxDay == 2
\* Clock ticks per second.
SubSec == 2
\* Times the migration script is run.
MaxMigrations == 2

\* -------------------------------------------------- program constants
\* const rssiThreshold = -70
rssiThreshold == -70
\* gracePeriod := 5 * time.Minute
gracePeriodMinutes == 5

\* The statuses HandleDetect answers with.
StatusOK == 200

StatusBadRequest == 400

StatusMethodNotAllowed == 405

TicksPerMinute == 60 * SubSec
TicksPerDay == 86400 * SubSec

Runs == 1..MaxRuns
Days == 1..MaxDay

\* ------------------------------------------------------------ strings
\* A Go string is the sequence of its characters.
Digits == <<"0", "1", "2", "3", "4", "5", "6", "7", "8", "9">>

isDigit(c) == \E i \in 1..10 : Digits[i] = c

digitVal(c) == (CHOOSE i \in 1..10 : Digits[i] = c) - 1

\* strings.ToLower on the characters a hardware address is made of.
lowerChar(c) ==
  CASE c = "A" -> "a"
    [] c = "B" -> "b"
    [] c = "C" -> "c"
    [] c = "D" -> "d"
    [] c = "E" -> "e"
    [] c = "F" -> "f"
    [] OTHER -> c

ToLower(s) == [i \in DOMAIN s |-> lowerChar(s[i])]

\* strings.ToUpper, likewise.
upperChar(c) ==
  CASE c = "a" -> "A"
    [] c = "b" -> "B"
    [] c = "c" -> "C"
    [] c = "d" -> "D"
    [] c = "e" -> "E"
    [] c = "f" -> "F"
    [] OTHER -> c

ToUpper(s) == [i \in DOMAIN s |-> upperChar(s[i])]

\* --------------------------------------------------------------- time
Instant(d, t) == [day |-> d, tick |-> t]

\* The absolute position of an instant on the time line.
Abs(t) == t.day * TicksPerDay + t.tick

\* t.Format("2006-01-02"): the calendar date of the instant.
FormatDate(t) == t.day

\* t.Format(time.RFC3339): date and time of day to the second; the
\* sub-second part is dropped.
FormatRFC3339(t) == [date |-> t.day, sec |-> t.tick \div SubSec]

\* t.Format("15:04:05")
FormatClock(t) == t.tick \div SubSec

\* getnum(s, fixed) of package time: one or two leading digits (two when
\* fixed); the value and the rest of the string.
getnum(s, fixed) ==
  IF Len(s) = 0 \/ ~isDigit(s[1])
    THEN [ok |-> FALSE, val |-> 0, rest |-> s]
    ELSE IF Len(s) < 2 \/ ~isDigit(s[2])
      THEN IF fixed
             THEN [ok |-> FALSE, val |-> 0, rest |-> s]
             ELSE [ok |-> TRUE, val |-> digitVal(s[1]), rest |-> Tail(s)]
      ELSE [ok |-> TRUE, val |-> digitVal(s[1]) * 10 + digitVal(s[2]),
            rest |-> Tail(Tail(s))]

\* The literal ":" of the layout.
skipColon(s) ==
  IF Len(s) > 0 /\ s[1] = ":"
    THEN [ok |-> TRUE, rest |-> Tail(s)]
    ELSE [ok |-> FALSE, rest |-> s]

\* A fractional second the layout does not name is accepted after the
\* seconds: "." or "," and digits.
RECURSIVE skipDigits(_)
skipDigits(s) ==
  IF Len(s) > 0 /\ isDigit(s[1]) THEN skipDigits(Tail(s)) ELSE s

skipFraction(s) ==
  IF Len(s) >= 2 /\ s[1] \in {".", ","} /\ isDigit(s[2])
    THEN skipDigits(Tail(s))
    ELSE s

ParseFailed == [ok |-> FALSE, hour |-> 0, min |-> 0, sec |-> 0]

\* time.Parse("15:04:05", s): hour (one or two digits, below 24), minute
\* and second (two digits each, below 60), no text left over.
ParseClock(s) ==
  LET h == getnum(s, FALSE)
      c1 == skipColon(h.rest)
      m == getnum(c1.rest, TRUE)
      c2 == skipColon(m.rest)
      x == getnum(c2.rest, TRUE)
      left == skipFraction(x.rest)
  IN  IF ~h.ok \/ h.val >= 24 THEN ParseFailed
      ELSE IF ~c1.ok THEN ParseFailed
      ELSE IF ~m.ok \/ m.val >= 60 THEN ParseFailed
      ELSE IF ~c2.ok THEN ParseFailed
      ELSE IF ~x.ok \/ x.val >= 60 THEN ParseFailed
      ELSE IF Len(left) > 0 THEN ParseFailed
      ELSE [ok |-> TRUE, hour |-> h.val, min |-> m.val, sec |-> x.val]

\* A text of the form HH:MM:SS, by its fields.
Str2(n) == <<Digits[(n \div 10) + 1], Digits[(n % 10) + 1]>>

ClockText(h, m, x) == Str2(h) \o <<":">> \o Str2(m) \o <<":">> \o Str2(x)

\* Expected start times as the employees collection may hold them: texts
\* time.Parse accepts, and texts it rejects.
WellFormedTexts ==
  { ClockText(8, 0, 0),
    ClockText(0, 0, 0),
    ClockText(23, 59, 59),
    ClockText(23, 55, 0),
    <<"8", ":", "0", "0", ":", "0", "0">>,
    ClockText(8, 0, 0) \o <<".", "5">> }

MalformedTexts ==
  { <<>>,
    <<"8", "a", "m">>,
    <<"0", "8", ":", "0", "0">>,
    ClockText(24, 0, 0),
    ClockText(8, 60, 0),
    ClockText(8, 0, 60),
    ClockText(8, 0, 0) \o <<" ">>,
    <<"0", "8", "-", "0", "0", "-", "0", "0">>,
    <<"0", "8", ":", "0", ":", "0", "0">>,
    <<"i", "n", "v", "a", "l", "i", "d">> }

WorkStartTexts == WellFormedTexts \cup MalformedTexts

\* time.Parse is a function of the text alone: what it returns for each
\* text the employees collection may hold.
parsedWorkStart == [s \in WorkStartTexts |-> ParseClock(s)]

\* time.Date(y, m, d, hour, min, sec, 0, loc) on the date of checkInTime.
todayWorkStart(checkInTime, workStart) ==
  Instant(checkInTime.day,
          (workStart.hour * 3600 + workStart.min * 60 + workStart.sec) * SubSec)

\* Integer division truncated toward zero, as int(float64) truncates.
truncDiv(a, b) == IF a >= 0 THEN a \div b ELSE -((-a) \div b)

\* calculateStatus with the end of the grace period counted as on time.
calculateStatus_GraceEndOnTime(checkInTime, workStartTime) ==
  LET workStart == parsedWorkStart[workStartTime]
  IN  IF ~workStart.ok THEN "ontime"
      ELSE IF Abs(checkInTime) <=
                Abs(todayWorkStart(checkInTime, workStart))
                  + gracePeriodMinutes * TicksPerMinute
        THEN "ontime"
        ELSE "late"

\* calculateStatus with a start time that does not parse counted as late.
calculateStatus_ParseFailureLate(checkInTime, workStartTime) ==
  LET workStart == parsedWorkStart[workStartTime]
  IN  IF ~workStart.ok THEN "late"
      ELSE IF Abs(checkInTime) <
                Abs(todayWorkStart(checkInTime, workStart))
                  + gracePeriodMinutes * TicksPerMinute
        THEN "ontime"
        ELSE "late"

\* calculateStatus without the grace period.
calculateStatus_NoGracePeriod(checkInTime, workStartTime) ==
  LET workStart == parsedWorkStart[workStartTime]
  IN  IF ~workStart.ok THEN "ontime"
      ELSE IF Abs(checkInTime) < Abs(todayWorkStart(checkInTime, workStart))
        THEN "ontime"
        ELSE "late"

\* calculateStatus determines if check-in is on time or late.
calculateStatus(checkInTime, workStartTime) ==
  LET workStart == parsedWorkStart[workStartTime]
  IN  IF ~workStart.ok THEN "ontime"
      ELSE IF Abs(checkInTime) <
                Abs(todayWorkStart(checkInTime, workStart))
                  + gracePeriodMinutes * TicksPerMinute
        THEN "ontime"
        ELSE "late"

\* The text "เข้าสาย" carries no figure; "เข้าสาย %d นาที" carries the minutes.
NoFigure == [figure |-> FALSE, minutes |-> 0]

\* calculateLateStatus counting from the end of the grace period.
calculateLateStatus_FromGraceEnd(checkInTime, workStartTime) ==
  LET workStart == parsedWorkStart[workStartTime]
  IN  IF ~workStart.ok THEN [figure |-> FALSE, minutes |-> 0]
      ELSE [figure |-> TRUE,
            minutes |-> truncDiv(Abs(checkInTime)
                                   - Abs(todayWorkStart(checkInTime, workStart))
                                   - gracePeriodMinutes * TicksPerMinute,
                                 TicksPerMinute)]

\* calculateLateStatus calculates late minutes for display.
calculateLateStatus(checkInTime, workStartTime) ==
  LET workStart == parsedWorkStart[workStartTime]
  IN  IF ~workStart.ok THEN NoFigure
      ELSE [figure |-> TRUE,
            minutes |-> truncDiv(Abs(checkInTime)
                                   - Abs(todayWorkStart(checkInTime, workStart)),
                                 TicksPerMinute)]

\* ------------------------------------------------------------- values
Nil == "nil"

NoEmployee ==
  [id |-> "none", mac_address |-> <<>>, telegram_chat_id |-> 0, name |-> "",
   work_start_time |-> <<>>, is_active |-> FALSE]

NoRequest == [mac_address |-> <<>>]

NoAttendance == [status |-> "none"]

NoCalc == [status |-> "none"]

\* The employees collection as the deployment holds it: two active
\* employees, one with a work_start_time that does not parse, and one
\* inactive employee.
InitialEmployees ==
  { [id |-> "e1", mac_address |-> <<"a", "1">>, telegram_chat_id |-> 101,
     name |-> "n1", work_start_time |-> ClockText(8, 0, 0), is_active |-> TRUE],
    [id |-> "e2", mac_address |-> <<"b", "2">>, telegram_chat_id |-> 102,
     name |-> "n2", work_start_time |-> <<"8", "a", "m">>, is_active |-> TRUE],
    [id |-> "e3", mac_address |-> <<"c", "3">>, telegram_chat_id |-> 103,
     name |-> "n3", work_start_time |-> ClockText(8, 0, 0), is_active |-> FALSE] }

\* What a scanner posts: the address of e1 in upper case (as the firmware
\* prints it), those of e2 and e3 as stored, and an address nobody has.
SightingMacs ==
  { <<"A", "1">>, <<"b", "2">>, <<"c", "3">>, <<"f", "f">> }

RSSIValues == { rssiThreshold - 1, rssiThreshold }

ScannerMacs == { "sc1" }

DetectionRequests ==
  [scanner_mac : ScannerMacs, mac_address : SightingMacs, rssi : RSSIValues]

\* The times of day the clock shows: the last tick before 08:05:00 and
\* 08:06:30.
ClockTicks ==
  { (8 * 3600 + 5 * 60) * SubSec - 1,
    (8 * 3600 + 6 * 60 + 30) * SubSec }

ClockInstants == { Instant(d, t) : d \in Days, t \in ClockTicks }

\* ----------------------------------------------------- HTTP exchanges
\* What httpClient.Do returns: a transport failure, or a response with a
\* status and a body that is JSON or is not.
NetFail == [net |-> FALSE, status |-> 0, json |-> FALSE]

Responses ==
  {NetFail} \cup [net : {TRUE}, status : {200, 201, 500}, json : BOOLEAN]

IsSuccess(resp) == resp.net /\ resp.status \in {200, 201}

\* A list request: PocketBase answers 200 with the items, or a failure.
ListResponses == { resp \in Responses : resp.status # 201 }

\* A create request: the record is stored exactly when PocketBase answers
\* with success; when the transport fails the request may have been
\* served before the failure.
CreateExchanges ==
  { x \in [stored : BOOLEAN, resp : Responses] :
      /\ IsSuccess(x.resp) => x.stored
      /\ (x.resp.net /\ ~IsSuccess(x.resp)) => ~x.stored }

----------------------------------------------------------------------------
VARIABLES
  now,          \* the server's clock
  employees,    \* PocketBase collection employees
  attendance,   \* PocketBase collection attendance
  detections,   \* PocketBase collection employee_detections
  bot,          \* package bot: the bot handle and targetChatID
  telegram,     \* messages the Telegram API accepted
  pc,           \* where each ProcessDetection call stands
  req,          \* its *models.DetectionRequest
  employee,     \* the employee it resolved
  checkIn,      \* recordAttendance's now and status
  result,       \* what it returned
  calls,        \* the collaborator calls it made, in order
  inbound,      \* the HTTP request each HandleDetect call serves
  ack,          \* the status HandleDetect answered with
  calc,         \* what the classifier returned when called on its own
  schema,       \* the fields of the collection employee_detections
  script        \* where the migration script stands

vars == <<now, employees, attendance, detections, bot, telegram,
          pc, req, employee, checkIn, result, calls, inbound, ack, calc,
          schema, script>>

scriptVars == <<schema, script>>

storeVars == <<employees, attendance, detections>>

\* -------------------------------------------------------- repositories
\* The filter without is_active=true.
employeesByMac_AnyStatus(m) ==
  { e \in employees : e.mac_address = m }

\* The records a filter "mac_address='<m>' && is_active=true" selects: the
\* comparison of texts is exact.
employeesByMac(m) ==
  { e \in employees : e.mac_address = m /\ e.is_active }

\* GetByMacAddress without the check for an empty list of items.
GetByMacAddress_NoEmptyCheck(resp, macAddress) ==
  LET items == employeesByMac(ToLower(macAddress))
  IN  IF ~resp.net
        THEN { [employee |-> NoEmployee, err |-> "transport"] }
      ELSE IF resp.status # 200
        THEN { [employee |-> NoEmployee, err |-> "failed to get employee"] }
      ELSE IF ~resp.json
        THEN { [employee |-> NoEmployee, err |-> "decode"] }
      ELSE IF items = {}
        THEN { [employee |-> NoEmployee, err |-> Nil] }
      ELSE { [employee |-> e, err |-> Nil] : e \in items }

\* PocketBaseRESTEmployeeRepository.GetByMacAddress: the possible returns
\* (limit=1 yields any one of the records that match).
GetByMacAddress(resp, macAddress) ==
  LET items == employeesByMac(ToLower(macAddress))
  IN  IF ~resp.net
        THEN { [employee |-> NoEmployee, err |-> "transport"] }
      ELSE IF resp.status # 200
        THEN { [employee |-> NoEmployee, err |-> "failed to get employee"] }
      ELSE IF ~resp.json
        THEN { [employee |-> NoEmployee, err |-> "decode"] }
      ELSE IF items = {}
        THEN { [employee |-> NoEmployee, err |-> "employee not found"] }
      ELSE { [employee |-> e, err |-> Nil] : e \in items }

\* The filter without employee_id.
attendanceOn_AnyEmployee(employeeID, date) ==
  { a \in attendance : a.created_date = date }

\* The records a filter "employee_id='<id>' && created_date='<date>'"
\* selects.
attendanceOn(employeeID, date) ==
  { a \in attendance : a.employee_id = employeeID /\ a.created_date = date }

\* IsCheckedInToday with a filter that leaves out created_date.
IsCheckedInToday_AnyDay(resp, employeeID) ==
  LET items == IF resp.status = 200
                 THEN { a \in attendance : a.employee_id = employeeID }
                 ELSE {}
  IN  IF ~resp.net THEN [isCheckedIn |-> FALSE, err |-> "transport"]
      ELSE IF ~resp.json THEN [isCheckedIn |-> FALSE, err |-> "decode"]
      ELSE [isCheckedIn |-> items # {}, err |-> Nil]

\* PocketBaseRESTEmployeeRepository.IsCheckedInToday.  The status of the
\* response is logged and not looked at: the body of a failure that is
\* JSON decodes to a result without items.
IsCheckedInToday(resp, employeeID) ==
  LET today == FormatDate(now)
      items == IF resp.status = 200 THEN attendanceOn(employeeID, today) ELSE {}
  IN  IF ~resp.net THEN [isCheckedIn |-> FALSE, err |-> "transport"]
      ELSE IF ~resp.json THEN [isCheckedIn |-> FALSE, err |-> "decode"]
      ELSE [isCheckedIn |-> items # {}, err |-> Nil]

\* PocketBaseRESTAttendanceRepository.Create: the error it returns.
AttendanceCreate(resp) ==
  IF ~resp.net THEN "transport"
  ELSE IF resp.status # 200 /\ resp.status # 201
    THEN "failed to create attendance"
  ELSE IF ~resp.json THEN "decode"
  ELSE Nil

\* PocketBaseRESTDetectionRepository.Create: the error it returns.
DetectionCreate(resp) ==
  IF ~resp.net THEN "transport"
  ELSE IF resp.status # 200 /\ resp.status # 201
    THEN "failed to create detection"
  ELSE Nil

\* ------------------------------------------------------------ notifier
AdminChatID == 900

\* The bot after bot.Init: NewBotAPI may have failed (bot is nil and
\* targetChatID is not set), and AUTHORIZED_CHAT_ID may be unset or not a
\* number (targetChatID is 0).
BotStates ==
  { [up |-> FALSE, targetChatID |-> 0],
    [up |-> TRUE, targetChatID |-> 0],
    [up |-> TRUE, targetChatID |-> AdminChatID] }

\* bot.Send: Telegram accepts the message or the call fails.
SendOutcomes == { "sent", "failed" }

\* SendPersonalNotification(chatID, message): what happens to the message.
SendPersonalNotification(outcome) ==
  IF ~bot.up THEN "dropped" ELSE outcome

\* SendNotification(message): what happens to the message.
SendNotification(outcome) ==
  IF ~bot.up \/ bot.targetChatID = 0 THEN "dropped" ELSE outcome

\* ------------------------------------------------------------- service
\* The gate switched off.
tooFar_Never(rssi) == FALSE

\* The gate rejecting a sighting at the threshold as well.
tooFar_AtThreshold(rssi) == rssi <= rssiThreshold

\* The proximity gate of ProcessDetection: "too far".
tooFar(rssi) == rssi < rssiThreshold

\* The models.EmployeeDetection saveDetection builds, as
\* PocketBaseRESTDetectionRepository.Create posts it.
NewDetection(r) ==
  [run |-> r,
   employee_id |-> employee[r].id,
   mac_address |-> ToLower(req[r].mac_address),
   scanner_mac |-> req[r].scanner_mac,
   rssi |-> req[r].rssi,
   is_target_device |-> TRUE,
   device_name |-> employee[r].name,
   detected_at |-> FormatRFC3339(now)]

\* The models.Attendance recordAttendance builds, as
\* PocketBaseRESTAttendanceRepository.Create posts it.
\* The record with its status fixed instead of classified.
NewAttendance_AlwaysOnTime(r, status) ==
  [run |-> r,
   employee_id |-> employee[r].id,
   check_in_time |-> FormatRFC3339(now),
   scanner_mac |-> req[r].scanner_mac,
   status |-> "ontime",
   created_date |-> FormatDate(now)]

NewAttendance(r, status) ==
  [run |-> r,
   employee_id |-> employee[r].id,
   check_in_time |-> FormatRFC3339(now),
   scanner_mac |-> req[r].scanner_mac,
   status |-> status,
   created_date |-> FormatDate(now)]

\* The message sendCheckInNotification sends to the employee.
PersonalMessage(r) ==
  [run |-> r,
   chat |-> employee[r].telegram_chat_id,
   kind |-> "personal",
   name |-> employee[r].name,
   time |-> FormatClock(checkIn[r].now),
   scanner |-> req[r].scanner_mac,
   status |-> checkIn[r].status,
   late |-> IF checkIn[r].status = "late"
              THEN calculateLateStatus(checkIn[r].now, employee[r].work_start_time)
              ELSE NoFigure]

\* The message sendCheckInNotification sends to the admin.
AdminMessage(r) ==
  [run |-> r,
   chat |-> bot.targetChatID,
   kind |-> "admin",
   name |-> employee[r].name,
   time |-> FormatClock(checkIn[r].now),
   scanner |-> req[r].scanner_mac,
   status |-> checkIn[r].status,
   late |-> calculateLateStatus(checkIn[r].now, employee[r].work_start_time)]

Call(r, op, out) == calls' = [calls EXCEPT ![r] = Append(@, [op |-> op, out |-> out])]

\* HandleDetect answering a failed pipeline with a server error.
acknowledge_ErrorVisible(err) == IF err = Nil THEN StatusOK ELSE 500

\* HandleDetect's answer once ProcessDetection has returned err.
acknowledge(err) == StatusOK

\* ProcessDetection returns err to HandleDetect, which answers.
Return(r, err) ==
  /\ pc' = [pc EXCEPT ![r] = "done"]
  /\ result' = [result EXCEPT ![r] = err]
  /\ ack' = [ack EXCEPT ![r] = acknowledge(err)]

Goto(r, label) ==
  /\ pc' = [pc EXCEPT ![r] = label]
  /\ UNCHANGED <<result, ack>>

\* What net/http hands to HandleDetect.
Methods == { "POST", "GET" }

NoInbound == [method |-> "none", decodable |-> FALSE]

Inbounds == [method : Methods, decodable : BOOLEAN]

\* HandleDetect without the check of the method.
rejection_NoMethodCheck(h) ==
  IF ~h.decodable THEN StatusBadRequest ELSE 0

\* HandleDetect's early returns: the status it answers with before
\* ProcessDetection is called, 0 when it goes on.
rejection(h) ==
  IF h.method # "POST" THEN StatusMethodNotAllowed
  ELSE IF ~h.decodable THEN StatusBadRequest
  ELSE 0

\* HandleDetect answers a request it does not process.
Reject(r) ==
  /\ pc[r] = "idle"
  /\ \A q \in Runs : q < r => pc[q] # "idle"
  /\ \E h \in Inbounds :
       /\ rejection(h) # 0
       /\ inbound' = [inbound EXCEPT ![r] = h]
       /\ ack' = [ack EXCEPT ![r] = rejection(h)]
  /\ pc' = [pc EXCEPT ![r] = "rejected"]
  /\ UNCHANGED <<scriptVars, calc, now, storeVars, bot, telegram, req, employee, checkIn,
                 result, calls>>

\* HandleDetect hands a decoded request to ProcessDetection.
Start(r) ==
  /\ pc[r] = "idle"
  /\ \A q \in Runs : q < r => pc[q] # "idle"
  /\ \E h \in Inbounds :
       /\ rejection(h) = 0
       /\ inbound' = [inbound EXCEPT ![r] = h]
  /\ \E d \in DetectionRequests : req' = [req EXCEPT ![r] = d]
  /\ Goto(r, "lookup")
  /\ UNCHANGED <<scriptVars, calc, now, storeVars, bot, telegram, employee, checkIn, calls>>

\* ProcessDetection: employeeRepo.GetByMacAddress, then the gate.
Lookup(r) ==
  /\ pc[r] = "lookup"
  /\ \E resp \in ListResponses :
       \E got \in GetByMacAddress(resp, req[r].mac_address) :
         /\ employee' = [employee EXCEPT ![r] = got.employee]
         /\ IF got.err # Nil
              THEN /\ Call(r, "GetByMacAddress",
                           IF got.err = "employee not found" THEN "not found"
                                                             ELSE "error")
                   /\ Return(r, Nil)
              ELSE /\ Call(r, "GetByMacAddress", "found")
                   /\ IF tooFar(req[r].rssi)
                        THEN Return(r, Nil)
                        ELSE Goto(r, "dedup")
  /\ UNCHANGED <<scriptVars, inbound, calc, now, storeVars, bot, telegram, req, checkIn>>

\* The dedup step failing open: an error of the check is logged and the
\* run goes on as if the identity had not arrived.
Dedup_FailOpen(r) ==
  /\ pc[r] = "dedup"
  /\ \E resp \in ListResponses :
       LET got == IsCheckedInToday(resp, employee[r].id)
       IN  IF got.err # Nil
             THEN /\ Call(r, "IsCheckedInToday", "error")
                  /\ Goto(r, "save")
             ELSE IF got.isCheckedIn
               THEN /\ Call(r, "IsCheckedInToday", "checked in")
                    /\ Return(r, Nil)
               ELSE /\ Call(r, "IsCheckedInToday", "not checked in")
                    /\ Goto(r, "save")
  /\ UNCHANGED <<scriptVars, inbound, calc, now, storeVars, bot, telegram, req, employee, checkIn>>

\* The dedup step with its answer ignored: the run goes on to record the
\* arrival of an identity that has arrived.
Dedup_AnswerIgnored(r) ==
  /\ pc[r] = "dedup"
  /\ \E resp \in ListResponses :
       LET got == IsCheckedInToday(resp, employee[r].id)
       IN  IF got.err # Nil
             THEN /\ Call(r, "IsCheckedInToday", "error")
                  /\ Return(r, "failed to check attendance status")
             ELSE /\ Call(r, "IsCheckedInToday",
                          IF got.isCheckedIn THEN "checked in" ELSE "not checked in")
                  /\ Goto(r, "save")
  /\ UNCHANGED <<scriptVars, inbound, calc, now, storeVars, bot, telegram, req, employee, checkIn>>

\* The dedup step taken under a lock that a run holds from its check to
\* its return: a run waits while another run is past its check.
Dedup_WaitsForOtherRuns(r) ==
  /\ pc[r] = "dedup"
  /\ \A q \in Runs \ {r} : pc[q] \notin {"save", "record", "notify", "admin"}
  /\ \E resp \in ListResponses :
       LET got == IsCheckedInToday(resp, employee[r].id)
       IN  IF got.err # Nil
             THEN /\ Call(r, "IsCheckedInToday", "error")
                  /\ Return(r, "failed to check attendance status")
             ELSE IF got.isCheckedIn
               THEN /\ Call(r, "IsCheckedInToday", "checked in")
                    /\ Return(r, Nil)
               ELSE /\ Call(r, "IsCheckedInToday",
                            IF resp.status = 200
                              THEN "not checked in"
                              ELSE "not checked in, status not OK")
                    /\ Goto(r, "save")
  /\ UNCHANGED <<scriptVars, inbound, calc, now, storeVars, bot, telegram, req, employee, checkIn>>

\* ProcessDetection going from the dedup check to recordAttendance, with no
\* DetectionRecord written.
Dedup_SkipsDetection(r) ==
  /\ pc[r] = "dedup"
  /\ \E resp \in ListResponses :
       LET got == IsCheckedInToday(resp, employee[r].id)
       IN  IF got.err # Nil
             THEN /\ Call(r, "IsCheckedInToday", "error")
                  /\ Return(r, "failed to check attendance status")
             ELSE IF got.isCheckedIn
               THEN /\ Call(r, "IsCheckedInToday", "checked in")
                    /\ Return(r, Nil)
               ELSE /\ Call(r, "IsCheckedInToday",
                            IF resp.status = 200
                              THEN "not checked in"
                              ELSE "not checked in, status not OK")
                    /\ Goto(r, "record")
  /\ UNCHANGED <<scriptVars, inbound, calc, now, storeVars, bot, telegram, req, employee, checkIn>>

\* ProcessDetection: employeeRepo.IsCheckedInToday.  The repository logs the
\* status of the response, so the log tells an answer from a failure that
\* was read as an answer.
Dedup(r) ==
  /\ pc[r] = "dedup"
  /\ \E resp \in ListResponses :
       LET got == IsCheckedInToday(resp, employee[r].id)
       IN  IF got.err # Nil
             THEN /\ Call(r, "IsCheckedInToday", "error")
                  /\ Return(r, "failed to check attendance status")
             ELSE IF got.isCheckedIn
               THEN /\ Call(r, "IsCheckedInToday", "checked in")
                    /\ Return(r, Nil)
               ELSE /\ Call(r, "IsCheckedInToday",
                            IF resp.status = 200
                              THEN "not checked in"
                              ELSE "not checked in, status not OK")
                    /\ Goto(r, "save")
  /\ UNCHANGED <<scriptVars, inbound, calc, now, storeVars, bot, telegram, req, employee, checkIn>>

\* saveDetection as a best-effort step: its error is logged and the run
\* goes on to recordAttendance.
SaveDetection_BestEffort(r) ==
  /\ pc[r] = "save"
  /\ \E x \in CreateExchanges :
       LET err == DetectionCreate(x.resp)
       IN  /\ detections' = IF x.stored THEN detections \cup {NewDetection(r)}
                                        ELSE detections
           /\ Call(r, "DetectionCreate", IF err # Nil THEN "error" ELSE "created")
           /\ Goto(r, "record")
  /\ UNCHANGED <<scriptVars, inbound, calc, now, employees, attendance, bot, telegram, req, employee, checkIn>>

\* saveDetection: detectionRepo.Create.
SaveDetection(r) ==
  /\ pc[r] = "save"
  /\ \E x \in CreateExchanges :
       LET err == DetectionCreate(x.resp)
       IN  /\ detections' = IF x.stored THEN detections \cup {NewDetection(r)}
                                        ELSE detections
           /\ IF err # Nil
                THEN /\ Call(r, "DetectionCreate", "error")
                     /\ Return(r, "failed to save detection")
                ELSE /\ Call(r, "DetectionCreate", "created")
                     /\ Goto(r, "record")
  /\ UNCHANGED <<scriptVars, inbound, calc, now, employees, attendance, bot, telegram, req, employee, checkIn>>

\* recordAttendance notifying although the create failed.
RecordAttendance_NotifyAnyway(r) ==
  /\ pc[r] = "record"
  /\ LET status == calculateStatus(now, employee[r].work_start_time)
     IN  \E x \in CreateExchanges :
           LET err == AttendanceCreate(x.resp)
           IN  /\ attendance' = IF x.stored
                                  THEN attendance \cup {NewAttendance(r, status)}
                                  ELSE attendance
               /\ checkIn' = [checkIn EXCEPT ![r] = [now |-> now, status |-> status]]
               /\ Call(r, "AttendanceCreate", IF err # Nil THEN "error" ELSE "created")
               /\ Goto(r, "notify")
  /\ UNCHANGED <<scriptVars, inbound, calc, now, employees, detections, bot, telegram, req, employee>>

\* recordAttendance trying the create again after a failure.
RecordAttendance_RetryOnError(r) ==
  /\ pc[r] = "record"
  /\ LET status == calculateStatus(now, employee[r].work_start_time)
     IN  \E x \in CreateExchanges :
           LET err == AttendanceCreate(x.resp)
           IN  /\ attendance' = IF x.stored
                                  THEN attendance \cup {NewAttendance(r, status)}
                                  ELSE attendance
               /\ checkIn' = [checkIn EXCEPT ![r] = [now |-> now, status |-> status]]
               /\ IF err # Nil
                    THEN /\ Call(r, "AttendanceCreate", "error")
                         /\ Goto(r, "record")
                    ELSE /\ Call(r, "AttendanceCreate", "created")
                         /\ Goto(r, "notify")
  /\ UNCHANGED <<scriptVars, inbound, calc, now, employees, detections, bot, telegram, req, employee>>

\* recordAttendance: calculateStatus and attendanceRepo.Create.
RecordAttendance(r) ==
  /\ pc[r] = "record"
  /\ LET status == calculateStatus(now, employee[r].work_start_time)
     IN  \E x \in CreateExchanges :
           LET err == AttendanceCreate(x.resp)
           IN  /\ attendance' = IF x.stored
                                  THEN attendance \cup {NewAttendance(r, status)}
                                  ELSE attendance
               /\ checkIn' = [checkIn EXCEPT ![r] = [now |-> now, status |-> status]]
               /\ IF err # Nil
                    THEN /\ Call(r, "AttendanceCreate", "error")
                         /\ Return(r, "failed to record attendance")
                    ELSE /\ Call(r, "AttendanceCreate", "created")
                         /\ Goto(r, "notify")
  /\ UNCHANGED <<scriptVars, inbound, calc, now, employees, detections, bot, telegram, req, employee>>

\* The message to the employee with a failed send returned as an error.
Notify_FailurePropagates(r) ==
  /\ pc[r] = "notify"
  /\ \E outcome \in SendOutcomes :
       LET out == SendPersonalNotification(outcome)
       IN  /\ Call(r, "SendPersonalNotification", out)
           /\ telegram' = IF out = "sent" THEN telegram \cup {PersonalMessage(r)}
                                          ELSE telegram
           /\ IF out # "sent" THEN Return(r, "failed to notify")
              ELSE IF checkIn[r].status = "late" THEN Goto(r, "admin")
              ELSE Return(r, Nil)
  /\ UNCHANGED <<scriptVars, inbound, calc, now, storeVars, bot, req, employee, checkIn>>

\* The message to the employee, with the admin told of every arrival.
Notify_AdminAlways(r) ==
  /\ pc[r] = "notify"
  /\ \E outcome \in SendOutcomes :
       LET out == SendPersonalNotification(outcome)
       IN  /\ Call(r, "SendPersonalNotification", out)
           /\ telegram' = IF out = "sent" THEN telegram \cup {PersonalMessage(r)}
                                          ELSE telegram
  /\ Goto(r, "admin")
  /\ UNCHANGED <<scriptVars, inbound, calc, now, storeVars, bot, req, employee, checkIn>>

\* sendCheckInNotification: the message to the employee.
Notify(r) ==
  /\ pc[r] = "notify"
  /\ \E outcome \in SendOutcomes :
       LET out == SendPersonalNotification(outcome)
       IN  /\ Call(r, "SendPersonalNotification", out)
           /\ telegram' = IF out = "sent" THEN telegram \cup {PersonalMessage(r)}
                                          ELSE telegram
  /\ IF checkIn[r].status = "late" THEN Goto(r, "admin") ELSE Return(r, Nil)
  /\ UNCHANGED <<scriptVars, inbound, calc, now, storeVars, bot, req, employee, checkIn>>

\* sendCheckInNotification: the message to the admin, if late.
NotifyAdmin(r) ==
  /\ pc[r] = "admin"
  /\ \E outcome \in SendOutcomes :
       LET out == SendNotification(outcome)
       IN  /\ Call(r, "SendNotification", out)
           /\ telegram' = IF out = "sent" THEN telegram \cup {AdminMessage(r)}
                                          ELSE telegram
  /\ Return(r, Nil)
  /\ UNCHANGED <<scriptVars, inbound, calc, now, storeVars, bot, req, employee, checkIn>>

\* Time passes.
Tick ==
  /\ \E t \in ClockInstants : Abs(t) > Abs(now) /\ now' = t
  /\ UNCHANGED <<scriptVars, calc, storeVars, bot, telegram, pc, req, employee, checkIn,
                 result, calls, inbound, ack>>

\* ------------------------------------------- the target-device migration
\* Field names, by their words.
is_target_device == <<"is", "target", "device">>

device_name == <<"device", "name">>

\* createDetectionsCollection: the fields setup gives employee_detections.
DetectionFields ==
  << <<"employee", "id">>, <<"mac", "address">>, <<"scanner", "mac">>,
     <<"rssi">>, <<"device", "type">>, <<"is", "itag03">>,
     <<"detected", "at">> >>

\* The collection when the script starts: as setup made it, with none, one
\* or both of the fields added before.
InitialSchemas ==
  { DetectionFields \o s :
      s \in { <<>>, <<is_target_device>>, <<device_name>>,
              <<is_target_device, device_name>>,
              <<device_name, is_target_device>> } }

\* POCKETBASE_TOKEN as .env gives it: absent or set.
Tokens == { "", "token" }

\* grep -q pattern: some line holds the pattern as a part of its text.
Contains(text, pattern) ==
  \E i \in 0..(Len(text) - Len(pattern)) :
    SubSeq(text, i + 1, i + Len(pattern)) = pattern

grepq(lines, pattern) == \E i \in DOMAIN lines : Contains(lines[i], pattern)

\* A response without "id": an error body.
NoCollection == [id |-> FALSE, fields |-> <<>>]

\* What GET /api/collections/employee_detections answers: the collection as
\* it is, or an error body.
CollectionResponses == { [id |-> TRUE, fields |-> schema], NoCollection }

NotStarted ==
  [pc |-> "idle", TOKEN |-> "", COLLECTION |-> NoCollection,
   code |-> 0, at |-> "", runs |-> 0]

\* exit <code> in function f.
Exit(code, f) == [script EXCEPT !.pc = "exit", !.code = code, !.at = f]

\* main is started, with the environment of .env.
main ==
  /\ script.pc \in {"idle", "exit"}
  /\ script.runs < MaxMigrations
  /\ \E t \in Tokens :
       script' = [pc |-> "check_pocketbase", TOKEN |-> t,
                  COLLECTION |-> NoCollection, code |-> 0, at |-> "",
                  runs |-> script.runs + 1]
  /\ UNCHANGED <<schema, now, storeVars, bot, telegram, pc, req, employee, checkIn,
                 result, calls, inbound, ack, calc>>

check_pocketbase ==
  /\ script.pc = "check_pocketbase"
  /\ \E healthy \in BOOLEAN :
       script' = IF ~healthy THEN Exit(1, "check_pocketbase")
                 ELSE [script EXCEPT !.pc = "check_token"]
  /\ UNCHANGED <<schema, now, storeVars, bot, telegram, pc, req, employee, checkIn,
                 result, calls, inbound, ack, calc>>

check_token ==
  /\ script.pc = "check_token"
  /\ script' = IF script.TOKEN = "" THEN Exit(1, "check_token")
               ELSE [script EXCEPT !.pc = "get_collection"]
  /\ UNCHANGED <<schema, now, storeVars, bot, telegram, pc, req, employee, checkIn,
                 result, calls, inbound, ack, calc>>

get_collection ==
  /\ script.pc = "get_collection"
  /\ \E resp \in CollectionResponses :
       script' = IF resp.id
                   THEN [script EXCEPT !.pc = "migrate", !.COLLECTION = resp]
                   ELSE [Exit(1, "get_collection") EXCEPT !.COLLECTION = resp]
  /\ UNCHANGED <<schema, now, storeVars, bot, telegram, pc, req, employee, checkIn,
                 result, calls, inbound, ack, calc>>

\* migrate: return 0 when either name is found in the fields fetched;
\* otherwise PATCH the collection with both fields appended, and exit 1
\* when the response has no "id".
migrate ==
  /\ script.pc = "migrate"
  /\ LET CURRENT_FIELDS == script.COLLECTION.fields
         NEW_FIELDS == script.COLLECTION.fields \o <<is_target_device, device_name>>
     IN  IF grepq(CURRENT_FIELDS, is_target_device)
           THEN script' = [script EXCEPT !.pc = "verify"] /\ schema' = schema
         ELSE IF grepq(CURRENT_FIELDS, device_name)
           THEN script' = [script EXCEPT !.pc = "verify"] /\ schema' = schema
         ELSE \E accepted \in BOOLEAN :
                IF accepted
                  THEN script' = [script EXCEPT !.pc = "verify"] /\ schema' = NEW_FIELDS
                  ELSE script' = Exit(1, "migrate") /\ schema' = schema
  /\ UNCHANGED <<now, storeVars, bot, telegram, pc, req, employee, checkIn,
                 result, calls, inbound, ack, calc>>

\* verify: fetch the collection again and look for both names.
verify ==
  /\ script.pc = "verify"
  /\ \E resp \in CollectionResponses :
       script' =
         [(IF ~grepq(resp.fields, is_target_device) THEN Exit(1, "verify")
           ELSE IF ~grepq(resp.fields, device_name) THEN Exit(1, "verify")
           ELSE Exit(0, "verify")) EXCEPT !.COLLECTION = resp]
  /\ UNCHANGED <<schema, now, storeVars, bot, telegram, pc, req, employee, checkIn,
                 result, calls, inbound, ack, calc>>

\* The script is run by hand, on a collection in any of its initial
\* shapes, while no sighting is served.
InitMigrate ==
  /\ now = Instant(1, 0)
  /\ employees = InitialEmployees
  /\ attendance = {}
  /\ detections = {}
  /\ bot = [up |-> FALSE, targetChatID |-> 0]
  /\ telegram = {}
  /\ pc = [r \in Runs |-> "idle"]
  /\ req = [r \in Runs |-> NoRequest]
  /\ employee = [r \in Runs |-> NoEmployee]
  /\ checkIn = [r \in Runs |-> NoAttendance]
  /\ result = [r \in Runs |-> "pending"]
  /\ calls = [r \in Runs |-> <<>>]
  /\ inbound = [r \in Runs |-> NoInbound]
  /\ ack = [r \in Runs |-> 0]
  /\ calc = NoCalc
  /\ schema \in InitialSchemas
  /\ script = NotStarted

NextMigrate ==
  \/ main
  \/ check_pocketbase
  \/ check_token
  \/ get_collection
  \/ migrate
  \/ verify

SpecMigrate == InitMigrate /\ [][NextMigrate]_vars

Init ==
  /\ now \in { t \in ClockInstants : t.day = 1 }
  /\ employees = InitialEmployees
  /\ attendance = {}
  /\ detections = {}
  /\ bot \in BotStates
  /\ telegram = {}
  /\ pc = [r \in Runs |-> "idle"]
  /\ req = [r \in Runs |-> NoRequest]
  /\ employee = [r \in Runs |-> NoEmployee]
  /\ checkIn = [r \in Runs |-> NoAttendance]
  /\ result = [r \in Runs |-> "pending"]
  /\ calls = [r \in Runs |-> <<>>]
  /\ inbound = [r \in Runs |-> NoInbound]
  /\ ack = [r \in Runs |-> 0]
  /\ calc = NoCalc
  /\ schema = DetectionFields
  /\ script = NotStarted

Step(r) ==
  \/ Lookup(r)
  \/ Dedup(r)
  \/ SaveDetection(r)
  \/ RecordAttendance(r)
  \/ Notify(r)
  \/ NotifyAdmin(r)

Next ==
  \/ \E r \in Runs : Start(r)
  \/ \E r \in Runs : Reject(r)
  \/ \E r \in Runs : Step(r)
  \/ Tick

\* Requests are served concurrently.
Spec == Init /\ [][Next]_vars

\* Every collaborator call returns, so a call that is under way takes its
\* next step.
SpecLive == Spec /\ \A r \in Runs : WF_vars(Step(r))

\* Requests are served one after another: a call starts when no other call
\* is under way.
StartSeq(r) ==
  /\ \A q \in Runs : pc[q] \in {"idle", "done", "rejected"}
  /\ Start(r)

NextSeq ==
  \/ \E r \in Runs : StartSeq(r)
  \/ \E r \in Runs : Reject(r)
  \/ \E r \in Runs : Step(r)
  \/ Tick

SpecSeq == Init /\ [][NextSeq]_vars

\* ------------------------------------------------ the bot's registration
\* The /register_employee commands the bot receives: address and chat.
RegisterCommands ==
  { [mac |-> <<"f", "f">>, chat |-> 104],
    [mac |-> <<"F", "f">>, chat |-> 104] }

\* The record registerEmployee posts; PocketBase gives it an id and leaves
\* work_start_time, which the bot does not send, empty.
NewEmployee(c) ==
  [id |-> "e4",
   mac_address |-> ToUpper(c.mac),
   telegram_chat_id |-> c.chat,
   name |-> "n4",
   work_start_time |-> <<>>,
   is_active |-> TRUE]

\* handleRegisterEmployee: one registration, whatever it answers.
Register ==
  /\ bot.up
  /\ \A e \in employees : e.id # "e4"
  /\ \E c \in RegisterCommands, x \in CreateExchanges :
       employees' = IF x.stored THEN employees \cup {NewEmployee(c)}
                                ELSE employees
  /\ UNCHANGED <<now, attendance, detections, bot, telegram, pc, req, employee,
                 checkIn, result, calls, inbound, ack, calc, scriptVars>>

\* A registration through the bot and one sighting.
NextBot ==
  \/ Register
  \/ Start(1)
  \/ Step(1)
  \/ Tick

SpecBot == Init /\ [][NextBot]_vars

\* -------------------------------------------------- the classifier alone
\* Arrival times of day: midnight, the last tick of the day, and the ticks
\* around 08:00:00 and the end of its grace period.
ArrivalOffsets == { -900, -60, -1, 0, 1, 59, 60, 240, 299, 300, 301, 359, 360, 1800 }

ArrivalTicks ==
  {0, TicksPerDay - 1} \cup
  { (8 * 3600 + d) * SubSec + k : d \in ArrivalOffsets, k \in {0, SubSec - 1} }

\* The unit tests call calculateStatus and calculateLateStatus directly.
Probe ==
  /\ calc = NoCalc
  /\ \E e \in employees :
       calc' = [status |-> calculateStatus(now, e.work_start_time),
                late |-> calculateLateStatus(now, e.work_start_time),
                checkInTime |-> now,
                workStartTime |-> e.work_start_time]
  /\ UNCHANGED <<now, storeVars, bot, telegram, pc, req, employee, checkIn,
                 result, calls, inbound, ack, scriptVars>>

\* One employee with any expected start time, sighted at any time of day.
InitCalc ==
  /\ now \in { Instant(MaxDay, t) : t \in ArrivalTicks }
  /\ \E w \in WorkStartTexts :
       employees = { [id |-> "e1", mac_address |-> <<"a", "1">>,
                      telegram_chat_id |-> 101, name |-> "n1",
                      work_start_time |-> w, is_active |-> TRUE] }
  /\ attendance = {}
  /\ detections = {}
  /\ bot = [up |-> TRUE, targetChatID |-> AdminChatID]
  /\ telegram = {}
  /\ pc = [r \in Runs |-> "idle"]
  /\ req = [r \in Runs |-> NoRequest]
  /\ employee = [r \in Runs |-> NoEmployee]
  /\ checkIn = [r \in Runs |-> NoAttendance]
  /\ result = [r \in Runs |-> "pending"]
  /\ calls = [r \in Runs |-> <<>>]
  /\ inbound = [r \in Runs |-> NoInbound]
  /\ ack = [r \in Runs |-> 0]
  /\ calc = NoCalc
  /\ schema = DetectionFields
  /\ script = NotStarted

NextCalc ==
  \/ Start(1)
  \/ Reject(1)
  \/ Step(1)
  \/ Probe

SpecCalc == InitCalc /\ [][NextCalc]_vars

----------------------------------------------------------------------------
\* ------------------------------------------------------------ properties
Done(r) == pc[r] = "done"

\* The calls of run r to operation op.
CallsTo(r, op) == { i \in DOMAIN calls[r] : calls[r][i].op = op }

Called(r, op, out) ==
  \E i \in DOMAIN calls[r] : calls[r][i].op = op /\ calls[r][i].out = out

ArrivalEventsBy(r) == { a \in attendance : a.run = r }

DetectionRecordsBy(r) == { d \in detections : d.run = r }

MessagesBy(r) == { m \in telegram : m.run = r }

\* One ArrivalEvent at most for an identity and a calendar day.
UniquePerDay ==
  \A a, b \in attendance :
    (a.employee_id = b.employee_id /\ a.created_date = b.created_date) => a = b

\* C1: when sightings are processed one after another, the attendance
\* store never holds two ArrivalEvents for the same identity and calendar
\* day.
C1_SequentialOnePerDay == UniquePerDay

\* C2: two concurrent calls for the same identity that both asked the
\* dedup check, were both truthfully answered "not arrived" and both went
\* on to create, leave at most one ArrivalEvent for that identity and day.
C2_ConcurrentOnePerDay ==
  \A r, q \in Runs :
    ( /\ r # q
      /\ Called(r, "IsCheckedInToday", "not checked in")
      /\ Called(q, "IsCheckedInToday", "not checked in")
      /\ employee[r].id = employee[q].id )
    => \A a \in ArrivalEventsBy(r), b \in ArrivalEventsBy(q) :
         a.created_date # b.created_date

\* The lookup of run r found an employee.
Resolved(r) == Called(r, "GetByMacAddress", "found")

\* IsCheckedInToday returned (false, nil) to run r.
AnsweredNotArrived(r) ==
  \/ Called(r, "IsCheckedInToday", "not checked in")
  \/ Called(r, "IsCheckedInToday", "not checked in, status not OK")

KnownActive(mac) ==
  \E e \in employees : e.is_active /\ e.mac_address = ToLower(mac)

\* C4: a sighting whose address resolves to no identity ends after the
\* lookup: no dedup check, no DetectionRecord, no ArrivalEvent, no
\* notification, and ProcessDetection returns nil.
C4_UnknownAddressIgnored ==
  \A r \in Runs :
    (Len(calls[r]) >= 1 /\ ~KnownActive(req[r].mac_address)) =>
      /\ Done(r)
      /\ result[r] = Nil
      /\ Len(calls[r]) = 1
      /\ calls[r][1].op = "GetByMacAddress"
      /\ DetectionRecordsBy(r) = {}
      /\ ArrivalEventsBy(r) = {}
      /\ MessagesBy(r) = {}

C4_Witness ==
  \E r \in Runs :
    /\ Done(r)
    /\ req[r].mac_address = <<"f", "f">>
    /\ calls[r] = <<[op |-> "GetByMacAddress", out |-> "not found"]>>
    /\ result[r] = Nil

\* C5: the gate rejects a resolved sighting exactly when its RSSI is below
\* the threshold of -70.  A rejected sighting ends there with nil: no dedup
\* check, no ArrivalEvent, no notification.  A sighting at -70 or above
\* goes on to the dedup check.
C5_GateRejectsBelowThreshold ==
  \A r \in Runs :
    Resolved(r) =>
      IF req[r].rssi < -70
        THEN /\ Done(r)
             /\ result[r] = Nil
             /\ Len(calls[r]) = 1
             /\ ArrivalEventsBy(r) = {}
             /\ MessagesBy(r) = {}
        ELSE \/ pc[r] = "dedup"
             \/ Len(calls[r]) >= 2 /\ calls[r][2].op = "IsCheckedInToday"

C5_Witness ==
  \E r, q \in Runs :
    /\ Resolved(r) /\ req[r].rssi = -70
    /\ Len(calls[r]) >= 2 /\ calls[r][2].op = "IsCheckedInToday"
    /\ Resolved(q) /\ req[q].rssi = -71 /\ Done(q) /\ result[q] = Nil

\* The ArrivalEvents the store holds for run r's identity on the current day.
EventsToday(r) ==
  { a \in attendance : a.employee_id = employee[r].id /\ a.created_date = now.day }

\* Run r takes its dedup step.
DedupStep(r) == pc[r] = "dedup" /\ pc'[r] # "dedup"

\* What the dedup check just told run r.
DedupAnswer(r) == calls'[r][Len(calls'[r])].out

\* C6: a resolved sighting that passes the gate while its identity already
\* has an ArrivalEvent on the current day is a no-op: the dedup check (when
\* it does not fail) ends the run with nil, and no DetectionRecord, no
\* ArrivalEvent and no notification follows.
C6_ReplayIsNoOp ==
  [][ \A r \in Runs :
        (DedupStep(r) /\ EventsToday(r) # {} /\ DedupAnswer(r) # "error") =>
          /\ pc'[r] = "done"
          /\ result'[r] = Nil
          /\ attendance' = attendance
          /\ detections' = detections
          /\ telegram' = telegram ]_vars

\* No collaborator failed during run r, and the store answered its dedup
\* query with status OK.
NoFailure(r) ==
  \A i \in 1..Len(calls[r]) :
    calls[r][i].out \in {"found", "checked in", "not checked in", "created", "sent"}

\* C7: a sighting of a known, active identity with RSSI at or above the
\* threshold and no ArrivalEvent on the current day (events of earlier days
\* do not count) is told not-arrived by the dedup check, and with no
\* collaborator failure the run ends with nil, exactly one new ArrivalEvent
\* and exactly one notification to the recipient.
C7_FirstSightingRecordsArrival ==
  /\ [][ \A r \in Runs :
           (DedupStep(r) /\ DedupAnswer(r) \in {"checked in", "not checked in"}) =>
             /\ req[r].rssi >= -70
             /\ employee[r].is_active
             /\ DedupAnswer(r) = "not checked in" <=> EventsToday(r) = {}
             /\ DedupAnswer(r) = "not checked in" => pc'[r] = "save" ]_vars
  /\ [](\A r \in Runs :
          (Done(r) /\ NoFailure(r) /\ Called(r, "IsCheckedInToday", "not checked in")) =>
            /\ result[r] = Nil
            /\ Cardinality(ArrivalEventsBy(r)) = 1
            /\ \A a \in ArrivalEventsBy(r) : a.employee_id = employee[r].id
            /\ Cardinality(CallsTo(r, "SendPersonalNotification")) = 1
            /\ Cardinality({ m \in MessagesBy(r) : m.chat = employee[r].telegram_chat_id }) = 1)

C7_Witness ==
  \E r \in Runs :
    /\ Done(r) /\ NoFailure(r) /\ result[r] = Nil
    /\ Called(r, "IsCheckedInToday", "not checked in")
    /\ Cardinality(ArrivalEventsBy(r)) = 1
    /\ \E a \in attendance :
         /\ a.employee_id = employee[r].id
         /\ a.created_date < checkIn[r].now.day

\* The second of the day each well-formed text names, read off the text.
StartSecond(w) ==
  CASE w = ClockText(8, 0, 0) -> 8 * 3600
    [] w = ClockText(0, 0, 0) -> 0
    [] w = ClockText(23, 59, 59) -> 23 * 3600 + 59 * 60 + 59
    [] w = ClockText(23, 55, 0) -> 23 * 3600 + 55 * 60
    [] w = <<"8", ":", "0", "0", ":", "0", "0">> -> 8 * 3600
    [] w = ClockText(8, 0, 0) \o <<".", "5">> -> 8 * 3600

\* Arrival at t is strictly before the expected start w of its day plus
\* five minutes.
BeforeGraceEnd(t, w) == t.tick < (StartSecond(w) + 5 * 60) * SubSec

\* The classifications made: by a direct call, and by recordAttendance.
Classified ==
  { [at |-> calc.checkInTime, start |-> calc.workStartTime, status |-> calc.status] :
      x \in IF calc = NoCalc THEN {} ELSE {1} }
  \cup
  { [at |-> checkIn[r].now, start |-> employee[r].work_start_time,
     status |-> checkIn[r].status] :
      r \in { q \in Runs : checkIn[q] # NoAttendance } }

\* C8: with a well-formed expected start, calculateStatus answers on-time
\* exactly when the arrival is strictly before the start plus the grace
\* period of five minutes, and late otherwise (at the end of the grace
\* period: late).
C8_OnTimeIffBeforeGraceEnd ==
  \A c \in Classified :
    c.start \in WellFormedTexts =>
      /\ c.status \in {"ontime", "late"}
      /\ c.status = "ontime" <=> BeforeGraceEnd(c.at, c.start)

C8_Witness ==
  /\ calc # NoCalc
  /\ calc.workStartTime = ClockText(8, 0, 0)
  /\ calc.checkInTime.tick = (8 * 3600 + 5 * 60) * SubSec
  /\ calc.status = "late"

\* C9: with an expected start that does not parse, calculateStatus answers
\* on-time and raises nothing: the ArrivalEvent is recorded as on-time, the
\* run fails only if creating the record fails, and no message goes to the
\* admin.
C9_MalformedStartIsOnTime ==
  /\ \A c \in Classified : c.start \in MalformedTexts => c.status = "ontime"
  /\ \A r \in Runs :
       (checkIn[r] # NoAttendance /\ employee[r].work_start_time \in MalformedTexts) =>
         /\ \A a \in ArrivalEventsBy(r) : a.status = "ontime"
         /\ CallsTo(r, "SendNotification") = {}
         /\ \A m \in MessagesBy(r) : m.kind = "personal" /\ m.status = "ontime"
         /\ result[r] \in {"pending", Nil} \/ Called(r, "AttendanceCreate", "error")
         /\ Called(r, "AttendanceCreate", "created") =>
              Cardinality(ArrivalEventsBy(r)) = 1

C9_Witness ==
  \E r \in Runs :
    /\ Done(r) /\ result[r] = Nil
    /\ employee[r].work_start_time \in MalformedTexts
    /\ checkIn[r] # NoAttendance
    /\ checkIn[r].now.tick >= (8 * 3600 + 30 * 60) * SubSec
    /\ \E a \in ArrivalEventsBy(r) : a.status = "ontime"
    /\ \E m \in MessagesBy(r) : m.kind = "personal"

\* m is the whole number of minutes in d ticks, truncated toward zero.
WholeMinutes(m, d) ==
  IF d >= 0
    THEN m >= 0 /\ m * 60 * SubSec <= d /\ d < (m + 1) * 60 * SubSec
    ELSE m <= 0 /\ m * 60 * SubSec >= d /\ d > (m - 1) * 60 * SubSec

\* The lateness figure for an arrival at t with expected start w.
LateFigureOK(late, t, w) ==
  IF w \in MalformedTexts
    THEN ~late.figure
    ELSE /\ late.figure
         /\ WholeMinutes(late.minutes, t.tick - StartSecond(w) * SubSec)

\* C10: calculateLateStatus reports the whole minutes between the expected
\* start and the arrival, truncated toward zero and not reduced by the
\* grace period (start 08:00:00: arrival 08:06:00 gives 6, 08:30:00 gives
\* 30); with an expected start that does not parse it reports no figure.
\* The messages of a late arrival carry that figure.
C10_LateMinutesFromStart ==
  /\ calc # NoCalc => LateFigureOK(calc.late, calc.checkInTime, calc.workStartTime)
  /\ (calc # NoCalc /\ calc.workStartTime = ClockText(8, 0, 0)) =>
       /\ calc.checkInTime.tick = (8 * 3600 + 6 * 60) * SubSec => calc.late.minutes = 6
       /\ calc.checkInTime.tick = (8 * 3600 + 30 * 60) * SubSec => calc.late.minutes = 30
  /\ \A r \in Runs : \A m \in MessagesBy(r) :
       IF m.status = "late"
         THEN LateFigureOK(m.late, checkIn[r].now, employee[r].work_start_time)
         ELSE ~m.late.figure

C10_Witness ==
  /\ calc # NoCalc
  /\ calc.workStartTime = ClockText(8, 0, 0)
  /\ calc.checkInTime.tick = (8 * 3600 + 6 * 60) * SubSec
  /\ calc.status = "late"
  /\ calc.late = [figure |-> TRUE, minutes |-> 6]

\* C11: when the identity lookup fails for a reason other than not-found
\* (transport failure, non-success status, undecodable response),
\* ProcessDetection returns an error, not nil.
C11_LookupFailurePropagated ==
  \A r \in Runs :
    (Done(r) /\ Called(r, "GetByMacAddress", "error")) => result[r] # Nil

\* C12: when IsCheckedInToday returns an error for a resolved sighting that
\* passed the gate, ProcessDetection returns an error wrapping the failure
\* of the check and the run ends there: no DetectionRecord, no ArrivalEvent
\* and no notification.
C12_DedupFailureAborts ==
  \A r \in Runs :
    Called(r, "IsCheckedInToday", "error") =>
      /\ Done(r)
      /\ result[r] = "failed to check attendance status"
      /\ Len(calls[r]) = 2
      /\ DetectionRecordsBy(r) = {}
      /\ ArrivalEventsBy(r) = {}
      /\ MessagesBy(r) = {}

C12_Witness ==
  \E r \in Runs :
    /\ Done(r)
    /\ Resolved(r) /\ req[r].rssi >= -70
    /\ Called(r, "IsCheckedInToday", "error")
    /\ result[r] = "failed to check attendance status"

\* C13: when creating the ArrivalEvent fails, ProcessDetection returns an
\* error and nothing of the branch follows: the failed create is the run's
\* last call, and no message goes to the recipient or to the admin.
C13_AttendanceFailureAborts ==
  \A r \in Runs :
    Called(r, "AttendanceCreate", "error") =>
      /\ Done(r)
      /\ result[r] = "failed to record attendance"
      /\ calls[r][Len(calls[r])] = [op |-> "AttendanceCreate", out |-> "error"]
      /\ CallsTo(r, "SendPersonalNotification") = {}
      /\ CallsTo(r, "SendNotification") = {}
      /\ MessagesBy(r) = {}

C13_Witness ==
  \E r \in Runs :
    /\ Done(r)
    /\ Called(r, "DetectionCreate", "created")
    /\ Called(r, "AttendanceCreate", "error")
    /\ result[r] = "failed to record attendance"
    /\ bot.up

\* C14 as the specification states it: a failure to create the
\* DetectionRecord is not fatal, the ArrivalEvent is still created and the
\* notification still dispatched.
C14_DetectionFailureNotFatal ==
  \A r \in Runs :
    (Done(r) /\ Called(r, "DetectionCreate", "error")) =>
      /\ CallsTo(r, "AttendanceCreate") # {}
      /\ CallsTo(r, "SendPersonalNotification") # {}

\* C14 amended: a failure to create the DetectionRecord is fatal to the
\* arrival branch.  ProcessDetection returns an error wrapping it, the
\* failed create is the run's last call, no ArrivalEvent is created and no
\* notification is dispatched for the sighting.
C14_DetectionFailureAborts ==
  \A r \in Runs :
    Called(r, "DetectionCreate", "error") =>
      /\ Done(r)
      /\ result[r] = "failed to save detection"
      /\ calls[r][Len(calls[r])] = [op |-> "DetectionCreate", out |-> "error"]
      /\ CallsTo(r, "AttendanceCreate") = {}
      /\ ArrivalEventsBy(r) = {}
      /\ MessagesBy(r) = {}

C14_Witness ==
  \E r \in Runs :
    /\ Done(r)
    /\ Called(r, "IsCheckedInToday", "not checked in")
    /\ Called(r, "DetectionCreate", "error")
    /\ result[r] = "failed to save detection"
    /\ ArrivalEventsBy(r) = {}

\* C15: a notification that is not delivered (the send to the recipient or
\* to the admin fails, the bot is not initialised, no admin chat is
\* configured) never changes the outcome: once the ArrivalEvent is created
\* it stays recorded and ProcessDetection returns nil.
C15_NotificationBestEffort ==
  \A r \in Runs :
    Called(r, "AttendanceCreate", "created") =>
      /\ Cardinality(ArrivalEventsBy(r)) = 1
      /\ result[r] \in {"pending", Nil}
      /\ Done(r) => result[r] = Nil
      /\ pc[r] \in {"notify", "admin", "done"}

C15_Witness ==
  \E r \in Runs :
    /\ Done(r) /\ result[r] = Nil
    /\ Called(r, "SendPersonalNotification", "failed")
    /\ Called(r, "SendNotification", "failed")
    /\ Cardinality(ArrivalEventsBy(r)) = 1
    /\ MessagesBy(r) = {}

\* The notifier calls of run r, in order.
Dispatches(r) ==
  SelectSeq(calls[r],
            LAMBDA c : c.op \in {"SendPersonalNotification", "SendNotification"})

\* The operations of a sequence of calls.
Ops(s) == [i \in DOMAIN s |-> s[i].op]

\* C16: for every recorded arrival the admin is sent a message exactly
\* when the arrival is classified late: a late arrival dispatches one
\* message to the recipient and then one to the admin, an on-time arrival
\* one message to the recipient and none to the admin.
C16_AdminMessageIffLate ==
  \A r \in Runs :
    (Done(r) /\ Called(r, "AttendanceCreate", "created")) =>
      /\ \A a \in ArrivalEventsBy(r) : a.status = checkIn[r].status
      /\ checkIn[r].status \in {"ontime", "late"}
      /\ Ops(Dispatches(r)) =
           IF checkIn[r].status = "late"
             THEN <<"SendPersonalNotification", "SendNotification">>
             ELSE <<"SendPersonalNotification">>
      /\ \A m \in MessagesBy(r) :
           /\ m.kind = "admin" => checkIn[r].status = "late"
           /\ m.kind = "admin" => m.chat = bot.targetChatID
           /\ m.kind = "personal" => m.chat = employee[r].telegram_chat_id

C16_Witness ==
  \E r, q \in Runs :
    /\ Done(r) /\ checkIn[r].status = "late"
    /\ Cardinality(MessagesBy(r)) = 2
    /\ Done(q) /\ checkIn[q].status = "ontime"
    /\ Cardinality(MessagesBy(q)) = 1

\* C17: for every POST with a decodable body HandleDetect calls
\* ProcessDetection once (every run starts with one lookup) and answers
\* 200 whatever ProcessDetection returns, an error included; it answers
\* nothing before ProcessDetection has returned.
C17_AlwaysAcknowledged ==
  \A r \in Runs :
    (inbound[r].method = "POST" /\ inbound[r].decodable) =>
      /\ pc[r] # "rejected"
      /\ ack[r] \in {0, 200}
      /\ ack[r] = 200 <=> Done(r)
      /\ Done(r) =>
           /\ result[r] # "pending"
           /\ Cardinality(CallsTo(r, "GetByMacAddress")) = 1

C17_Witness ==
  \E r, q \in Runs :
    /\ Done(r) /\ result[r] = "failed to record attendance" /\ ack[r] = 200
    /\ Done(q) /\ result[q] = Nil /\ ack[q] = 200

\* C18: HandleDetect answers a request that is not a POST with 405 and a
\* POST whose body does not decode with 400; for neither does it call
\* ProcessDetection, and no store is read or written on its behalf.
C18_RejectedRequestsUntouched ==
  /\ [](\A r \in Runs :
          (inbound[r] # NoInbound /\ ~(inbound[r].method = "POST" /\ inbound[r].decodable)) =>
            /\ pc[r] = "rejected"
            /\ ack[r] = IF inbound[r].method # "POST" THEN 405 ELSE 400
            /\ calls[r] = <<>>
            /\ result[r] = "pending"
            /\ DetectionRecordsBy(r) = {}
            /\ ArrivalEventsBy(r) = {}
            /\ MessagesBy(r) = {})
  /\ [][ \A r \in Runs :
           (pc[r] # "rejected" /\ pc'[r] = "rejected") =>
             /\ employees' = employees
             /\ attendance' = attendance
             /\ detections' = detections
             /\ telegram' = telegram ]_vars

C18_Witness ==
  \E r, q \in Runs :
    /\ inbound[r] = [method |-> "GET", decodable |-> TRUE]
    /\ pc[r] = "rejected" /\ ack[r] = 405
    /\ inbound[q] = [method |-> "POST", decodable |-> FALSE]
    /\ pc[q] = "rejected" /\ ack[q] = 400

\* Run r takes its lookup step and the store answers the query.
LookupAnswered(r) ==
  /\ pc[r] = "lookup" /\ pc'[r] # "lookup"
  /\ calls'[r][1].out \in {"found", "not found"}

\* C19: the lookup is case-insensitive on the hardware address: a sighting
\* whose address is an upper/lower-case variant of the address of an
\* active identity in the store, one registered through the bot included,
\* resolves to that identity.
C19_LookupCaseInsensitive ==
  [][ \A r \in Runs :
        LookupAnswered(r) =>
          \A e \in employees :
            (e.is_active /\ ToLower(e.mac_address) = ToLower(req[r].mac_address)) =>
              /\ calls'[r][1].out = "found"
              /\ employee'[r].id = e.id ]_vars

\* The address of sighting r belongs to inactive identities only.
InactiveOnly(r) ==
  /\ \E e \in employees : ~e.is_active /\ e.mac_address = ToLower(req[r].mac_address)
  /\ \A e \in employees : e.mac_address = ToLower(req[r].mac_address) => ~e.is_active

\* C20: only active identities are resolved.  A sighting whose address
\* matches an inactive identity only is treated like an unknown address:
\* the store answers not found, the run ends after the lookup with nil, and
\* no DetectionRecord, no ArrivalEvent and no notification is produced.
C20_InactiveIdentityIgnored ==
  \A r \in Runs :
    (Len(calls[r]) >= 1 /\ InactiveOnly(r)) =>
      /\ calls[r][1].out \in {"not found", "error"}
      /\ employee[r] = NoEmployee
      /\ Done(r) /\ result[r] = Nil
      /\ Len(calls[r]) = 1
      /\ DetectionRecordsBy(r) = {}
      /\ ArrivalEventsBy(r) = {}
      /\ MessagesBy(r) = {}

C20_Witness ==
  \E r \in Runs :
    /\ req[r].mac_address = <<"c", "3">> /\ req[r].rssi = -70
    /\ InactiveOnly(r)
    /\ calls[r] = <<[op |-> "GetByMacAddress", out |-> "not found"]>>
    /\ Done(r) /\ result[r] = Nil

\* C21: in every run an attempt to create an ArrivalEvent comes after a
\* dedup check of the same run that returned without error and answered
\* not-arrived; a run whose check errored or answered already-arrived
\* attempts no create.
C21_CreateOnlyAfterDedup ==
  \A r \in Runs :
    /\ \A i \in CallsTo(r, "AttendanceCreate") :
         \E j \in CallsTo(r, "IsCheckedInToday") :
           /\ j < i
           /\ calls[r][j].out \in {"not checked in", "not checked in, status not OK"}
    /\ (Called(r, "IsCheckedInToday", "error") \/ Called(r, "IsCheckedInToday", "checked in")) =>
         /\ CallsTo(r, "AttendanceCreate") = {}
         /\ ArrivalEventsBy(r) = {}
    /\ ArrivalEventsBy(r) # {} => CallsTo(r, "AttendanceCreate") # {}
    /\ \A a \in ArrivalEventsBy(r) : a.employee_id = employee[r].id

C21_Witness ==
  \E r, q \in Runs :
    /\ Called(r, "IsCheckedInToday", "not checked in")
    /\ Called(r, "AttendanceCreate", "created")
    /\ Done(q) /\ Called(q, "IsCheckedInToday", "checked in")
    /\ ArrivalEventsBy(q) = {}

\* The collaborator operations of the pipeline.
Operations ==
  { "GetByMacAddress", "IsCheckedInToday", "DetectionCreate", "AttendanceCreate",
    "SendPersonalNotification", "SendNotification" }

\* C22: the orchestrator never retries a step: within one run each
\* collaborator operation is invoked at most once, also after it has
\* failed, and a failed lookup, check or create is the run's last call.
C22_NoRetry ==
  \A r \in Runs :
    /\ \A i \in DOMAIN calls[r] : calls[r][i].op \in Operations
    /\ \A op \in Operations : Cardinality(CallsTo(r, op)) <= 1
    /\ \A i \in DOMAIN calls[r] :
         (calls[r][i].out = "error") => (i = Len(calls[r]) /\ Done(r))

C22_Witness ==
  \E r, q \in Runs :
    /\ Done(r)
    /\ Called(r, "AttendanceCreate", "error")
    /\ Cardinality(CallsTo(r, "AttendanceCreate")) = 1
    /\ Done(q)
    /\ Called(q, "SendPersonalNotification", "failed")
    /\ Cardinality(CallsTo(q, "SendPersonalNotification")) = 1

\* The terminal states of a run, told by what it returned and by its calls.
EndedDone(r) ==
  result[r] = Nil /\ Called(r, "AttendanceCreate", "created")

EndedUnknownIdentity(r) ==
  result[r] = Nil /\ Len(calls[r]) = 1 /\ calls[r][1].out # "found"

EndedTooFar(r) ==
  result[r] = Nil /\ Len(calls[r]) = 1 /\ calls[r][1].out = "found"

EndedAlreadyArrived(r) ==
  result[r] = Nil /\ Len(calls[r]) = 2 /\ calls[r][2].out = "checked in"

EndedFailed(r) ==
  result[r] \in { "failed to check attendance status", "failed to save detection",
                  "failed to record attendance" }

TerminalStates(r) ==
  { s \in { "Done", "Ignored(unknown-identity)", "Ignored(too-far)",
            "Ignored(already-arrived)", "Failed" } :
      \/ s = "Done" /\ EndedDone(r)
      \/ s = "Ignored(unknown-identity)" /\ EndedUnknownIdentity(r)
      \/ s = "Ignored(too-far)" /\ EndedTooFar(r)
      \/ s = "Ignored(already-arrived)" /\ EndedAlreadyArrived(r)
      \/ s = "Failed" /\ EndedFailed(r) }

\* A run is under way.
Running(r) == pc[r] \in {"lookup", "dedup", "save", "record", "notify", "admin"}

\* C23: with every collaborator call returning, every ProcessDetection
\* run terminates, in exactly one of the terminal states Done,
\* Ignored(unknown-identity), Ignored(too-far), Ignored(already-arrived)
\* and Failed; a run under way can always take its next step, whatever the
\* other runs are doing.
C23_EveryRunTerminates ==
  /\ [](\A r \in Runs :
          /\ Done(r) => Cardinality(TerminalStates(r)) = 1
          /\ Running(r) => ENABLED Step(r))
  /\ \A r \in Runs : Running(r) ~> Done(r)

C23_Witness ==
  \E r, q \in Runs :
    /\ Done(r) /\ TerminalStates(r) = {"Done"}
    /\ Done(q) /\ TerminalStates(q) = {"Ignored(already-arrived)"}

\* The ArrivalEvents the store holds for the identity of run r.
EventsOfIdentity(r) == { a \in attendance : a.employee_id = employee[r].id }

\* The notifications the recipient of run r's identity was sent.
NotificationsToIdentity(r) ==
  { m \in telegram : m.chat = employee[r].telegram_chat_id }

\* Run r is a sighting of a known identity with RSSI at or above the
\* threshold, and none of its collaborators failed.
Qualifying(r) ==
  Resolved(r) /\ req[r].rssi >= rssiThreshold /\ NoFailure(r)

\* C24: two concurrent qualifying first-of-day sightings of distinct known
\* identities (the only sightings of these identities) do not interfere: however their steps interleave, both end
\* with nil, and the stores hold exactly one ArrivalEvent and one
\* notification to the recipient for each identity, each made by the run
\* of that identity, as when the sightings are processed one after another.
C24_DistinctIdentitiesIndependent ==
  \A r, q \in Runs :
    ( /\ Done(r) /\ Done(q)
      /\ Qualifying(r) /\ Qualifying(q)
      /\ employee[r].id # employee[q].id
      /\ \A o \in Runs \ {r, q} : employee[o].id \notin {employee[r].id, employee[q].id} )
    => \A p \in {r, q} :
         /\ result[p] = Nil
         /\ Cardinality(EventsOfIdentity(p)) = 1
         /\ EventsOfIdentity(p) = ArrivalEventsBy(p)
         /\ Cardinality(NotificationsToIdentity(p)) = 1
         /\ NotificationsToIdentity(p) \subseteq MessagesBy(p)

C24_Witness ==
  \E r, q \in Runs :
    /\ Done(r) /\ Done(q)
    /\ Qualifying(r) /\ Qualifying(q)
    /\ employee[r].id = "e1" /\ employee[q].id = "e2"
    /\ Cardinality(attendance) = 2
    /\ Cardinality(EventsOfIdentity(r)) = 1
    /\ Cardinality(EventsOfIdentity(q)) = 1
    /\ Cardinality(NotificationsToIdentity(r)) = 1
    /\ Cardinality(NotificationsToIdentity(q)) = 1

\* The number of fields of the collection with the given name.
FieldCount(name) == Cardinality({ i \in DOMAIN schema : schema[i] = name })

\* The script went through migrate and verify, and verify was answered
\* with the collection.
MigratedAndVerified ==
  script.pc = "exit" /\ script.at = "verify" /\ script.COLLECTION.id

\* C25: whichever of the two fields the collection holds when the script
\* starts, migrate followed by verify ends with exit code 0 and with
\* is_target_device and device_name in the collection, each exactly once.
C25_MigrationSkipsAndCompletes ==
  MigratedAndVerified =>
    /\ script.code = 0
    /\ FieldCount(is_target_device) = 1
    /\ FieldCount(device_name) = 1

\* The store answered run r's dedup query with a status that is not 200,
\* and IsCheckedInToday returned (false, nil).
FailedQueryReadAsAnswer(r) ==
  Called(r, "IsCheckedInToday", "not checked in, status not OK")

\* C26: a dedup query the store answers with a non-success status is an
\* error of IsCheckedInToday, never the answer not-arrived: the run ends
\* with "failed to check attendance status" and creates no ArrivalEvent.
C26_DedupFailsClosedAtRepository ==
  \A r \in Runs :
    FailedQueryReadAsAnswer(r) =>
      /\ Done(r)
      /\ result[r] = "failed to check attendance status"
      /\ ArrivalEventsBy(r) = {}

\* C27: every ArrivalEvent recordAttendance wrote is consistent with the one
\* clock reading of its run: created_date is the date of check_in_time,
\* status is what calculateStatus returns for that reading and the
\* employee's work_start_time, is "ontime" or "late", and is the status
\* every message of the run announces.
C27_ArrivalEventConsistent ==
  \A a \in attendance :
    LET r == a.run
    IN  /\ checkIn[r] # NoAttendance
        /\ a.check_in_time = FormatRFC3339(checkIn[r].now)
        /\ a.created_date = FormatDate(checkIn[r].now)
        /\ a.created_date = a.check_in_time.date
        /\ a.status = calculateStatus(checkIn[r].now, employee[r].work_start_time)
        /\ a.status \in {"ontime", "late"}
        /\ \A m \in MessagesBy(r) : m.status = a.status

C27_Witness ==
  \E a, b \in attendance :
    /\ a.status = "late" /\ a.created_date = MaxDay
    /\ \E m \in MessagesBy(a.run) : m.kind = "personal" /\ m.status = "late"
    /\ b.status = "ontime" /\ b.created_date = 1
    /\ \E m \in MessagesBy(b.run) : m.kind = "personal" /\ m.status = "ontime"

\* C28: a message that announces a late arrival, to the employee or to the
\* admin, carries a lateness figure, and the figure is at least the 5
\* minutes of the grace period (so never negative); so does the classifier
\* called on its own.
C28_LateFigureAtLeastGrace ==
  /\ \A m \in telegram :
       m.status = "late" =>
         /\ m.late.figure
         /\ m.late.minutes >= gracePeriodMinutes
  /\ (calc # NoCalc /\ calc.status = "late") =>
       /\ calc.late.figure
       /\ calc.late.minutes >= gracePeriodMinutes

C28_Witness ==
  \E p, a \in telegram :
    /\ p.kind = "personal" /\ p.status = "late" /\ p.late.minutes = gracePeriodMinutes
    /\ a.kind = "admin" /\ a.status = "late" /\ a.late.minutes = gracePeriodMinutes
    /\ a.run = p.run

\* The runs that were told their ArrivalEvent for the identity was created.
CreatedFor(id) ==
  { r \in Runs : employee[r].id = id /\ Called(r, "AttendanceCreate", "created") }

\* The runs that dispatched a notification to the recipient of the identity.
DispatchedFor(id) ==
  { r \in Runs : employee[r].id = id /\ CallsTo(r, "SendPersonalNotification") # {} }

\* Run r calls the notifier in this step.
NotifierStep(r) ==
  /\ Len(calls'[r]) = Len(calls[r]) + 1
  /\ calls'[r][Len(calls'[r])].op \in {"SendPersonalNotification", "SendNotification"}

\* C29: no notification without a recorded arrival: for every identity the
\* notifications dispatched to its recipient, and those Telegram accepted,
\* are at most as many as the ArrivalEvents whose create returned success,
\* and a run calls the notifier only when its own create has returned
\* success and its ArrivalEvent is in the store.
C29_NoNotificationWithoutArrival ==
  /\ [](\A e \in employees :
          /\ Cardinality(DispatchedFor(e.id)) <= Cardinality(CreatedFor(e.id))
          /\ DispatchedFor(e.id) \subseteq CreatedFor(e.id)
          /\ Cardinality({ m \in telegram : m.kind = "personal"
                                             /\ m.chat = e.telegram_chat_id })
               <= Cardinality({ a \in attendance : a.employee_id = e.id }))
  /\ [][ \A r \in Runs :
           NotifierStep(r) =>
             /\ Called(r, "AttendanceCreate", "created")
             /\ ArrivalEventsBy(r) # {} ]_vars

C29_Witness ==
  \E r, q \in Runs :
    /\ employee[r].id = employee[q].id
    /\ Called(r, "AttendanceCreate", "created")
    /\ Called(r, "SendPersonalNotification", "sent")
    /\ Done(q) /\ Called(q, "AttendanceCreate", "error")
    /\ ArrivalEventsBy(q) # {}
    /\ Cardinality(DispatchedFor(employee[r].id)) = 1

\* The DetectionRecords run r wrote for its identity and sighting.
OwnDetections(r) ==
  { d \in DetectionRecordsBy(r) :
      /\ d.employee_id = employee[r].id
      /\ d.mac_address = ToLower(req[r].mac_address)
      /\ d.rssi = req[r].rssi }

\* C30: within a run the DetectionRecord comes first: an attempt to create
\* the ArrivalEvent follows a DetectionRecord create of the same run that
\* returned success, and every ArrivalEvent has a DetectionRecord of its
\* run for the same identity and sighting.  Nothing undoes that write: a
\* run whose ArrivalEvent create failed leaves its DetectionRecord, and a
\* replay of the sighting that gets as far adds a DetectionRecord of its
\* own.
C30_DetectionBeforeArrival ==
  /\ \A r \in Runs :
       /\ \A i \in CallsTo(r, "AttendanceCreate") :
            \E j \in CallsTo(r, "DetectionCreate") :
              j < i /\ calls[r][j].out = "created"
       /\ Called(r, "DetectionCreate", "created") => Cardinality(OwnDetections(r)) = 1
       /\ ArrivalEventsBy(r) # {} => Cardinality(OwnDetections(r)) = 1
       /\ Called(r, "AttendanceCreate", "error") => Cardinality(OwnDetections(r)) = 1
  /\ \A r, q \in Runs :
       ( /\ r # q
         /\ employee[r].id = employee[q].id
         /\ Called(r, "AttendanceCreate", "error")
         /\ Called(q, "DetectionCreate", "created") )
       => /\ OwnDetections(r) \cap OwnDetections(q) = {}
          /\ Cardinality({ d \in detections : d.employee_id = employee[r].id }) >= 2

C30_Witness ==
  \E r, q \in Runs :
    /\ r # q
    /\ req[r] = req[q]
    /\ employee[r].id = employee[q].id
    /\ Done(r) /\ result[r] = "failed to record attendance"
    /\ ArrivalEventsBy(r) = {}
    /\ Done(q) /\ result[q] = Nil
    /\ Cardinality(ArrivalEventsBy(q)) = 1
    /\ Cardinality({ d \in detections : d.employee_id = employee[r].id }) = 2
    /\ Cardinality(attendance) = 1

=============================================================================
